---- MODULE Spec2Model ----
(***************************************************************************)
(* The MP4 (ISO-BMFF) reader of webinar_test: Open/Parse, the box scanner  *)
(* readBoxes, the typed box decoders and extractVideoChunks, as a state    *)
(* machine over one input file.  The repository holds two near-duplicate   *)
(* programs (src/unnamed/part_000 and src/main.go); prog selects which one *)
(* runs.  A Go run-time panic (index out of range, nil dereference) ends   *)
(* the process: pc = "panic".                                             *)
(***************************************************************************)
EXTENDS Integers, Sequences, FiniteSets, TLC

VARIABLES
    prog,         \* "part_000" | "main": which of the two programs runs
    file,         \* the bytes behind Mp4Reader.Reader
    pc,           \* "init" | "parse" | "done" | "extracted" | "panic"
    m,            \* the Mp4Reader: Ftyp, Moov, Mdat, Size
    stack,        \* call stack of the parse functions, innermost frame last
    err,          \* what Parse returned: "pending" until it returns, then "nil"
    videoStream,  \* what extractVideoChunks returned
    reads,        \* history: every header read readBoxes issued
    skipped,      \* history: boxes a parse loop's switch matched no case for
    fault         \* history: why the process panicked

vars == <<prog, file, pc, m, stack, err, videoStream, reads, skipped, fault>>

(***************************************************************************)
(* Bounds of the model.                                                    *)
(***************************************************************************)
\* top-level boxes in a generated container
MaxTop == 2
\* trak boxes in a generated moov box
MaxTraks == 2
\* readBoxes appends without limit while a size-0 header keeps its offset
\* in place; the model stops appending at this many headers
MaxBoxes == 8

(***************************************************************************)
(* Values.                                                                 *)
(***************************************************************************)
BoxHeaderSize == 8

\* a nil pointer
Nil == [isNil |-> TRUE]
\* the outcome of a decoder that panicked
Panicked == [panicked |-> TRUE]

\* binary.BigEndian.Uint16 / Uint32 of the first 2 / 4 bytes of b
Uint16(b) == b[1] * 256 + b[2]
Uint32(b) == b[1] * 16777216 + b[2] * 65536 + b[3] * 256 + b[4]

\* Go's data[lo:hi] on a slice whose capacity is its length (0-based, hi excluded)
Slice(data, lo, hi) == SubSeq(data, lo + 1, hi)

\* fixed16 / fixed32: the Fixed16 / Fixed32 value of a byte slice
fixed16(b) == Uint16(b)
fixed32(b) == Uint32(b)

(***************************************************************************)
(* Box tags: the four ASCII bytes of each name.                            *)
(***************************************************************************)
T_ftyp == <<102, 116, 121, 112>>
T_moov == <<109, 111, 111, 118>>
T_mvhd == <<109, 118, 104, 100>>
T_trak == <<116, 114, 97, 107>>
T_tkhd == <<116, 107, 104, 100>>
T_mdia == <<109, 100, 105, 97>>
T_mdhd == <<109, 100, 104, 100>>
T_hdlr == <<104, 100, 108, 114>>
T_minf == <<109, 105, 110, 102>>
T_vmhd == <<118, 109, 104, 100>>
T_smhd == <<115, 109, 104, 100>>
T_hmhd == <<104, 109, 104, 100>>
T_stbl == <<115, 116, 98, 108>>
T_stsz == <<115, 116, 115, 122>>
T_stsc == <<115, 116, 115, 99>>
T_stco == <<115, 116, 99, 111>>
T_mdat == <<109, 100, 97, 116>>
T_free == <<102, 114, 101, 101>>
T_vide == <<118, 105, 100, 101>>
T_soun == <<115, 111, 117, 110>>
T_isom == <<105, 115, 111, 109>>
T_iso2 == <<105, 115, 111, 50>>

(***************************************************************************)
(* The byte source.                                                        *)
(***************************************************************************)
\* Mp4Reader.ReadBytesAt(n, offset): n bytes at offset, or nil (the empty
\* slice) when ReadAt reports an error: the file ends before offset+n
ReadBytesAt(f, n, offset) ==
    IF offset + n > Len(f) THEN <<>> ELSE SubSeq(f, offset + 1, offset + n)

\* Mp4Reader.ReadBoxAt(offset): the size and the tag of the header at offset;
\* buf[0:4] of a nil buf panics
ReadBoxAt(f, offset) ==
    LET buf == ReadBytesAt(f, BoxHeaderSize, offset) IN
    IF Len(buf) < 8 THEN Panicked
    ELSE [boxSize |-> Uint32(Slice(buf, 0, 4)), boxType |-> Slice(buf, 4, 8)]

\* Box.ReadBoxData: the payload of box b, nil for a box of size <= 8
ReadBoxData(f, b) ==
    IF b.Size <= BoxHeaderSize THEN <<>>
    ELSE ReadBytesAt(f, b.Size - BoxHeaderSize, b.Start + BoxHeaderSize)

(***************************************************************************)
(* The typed box decoders.  Each takes the box and its payload (the result *)
(* of ReadBoxData) and gives the decoded object, or Panicked when an index *)
(* or slice expression of the decoder is out of range.  Struct fields the  *)
(* decoder never assigns keep Go's zero value.                             *)
(***************************************************************************)
\* the loop of FtypBox.parse: for i := 8; i < len(data); i += 4 { data[i:i+4] }
RECURSIVE ftypBrands(_, _, _)
ftypBrands(data, i, acc) ==
    IF i >= Len(data) THEN [ok |-> TRUE, brands |-> acc]
    ELSE IF i + 4 > Len(data) THEN [ok |-> FALSE, brands |-> acc]
    ELSE ftypBrands(data, i + 4, Append(acc, Slice(data, i, i + 4)))

\* a decoder whose brand loop starts one brand late
FtypBox_parse_Late(b, data) ==
    IF Len(data) < 8 THEN Panicked
    ELSE LET loop == ftypBrands(data, 12, <<>>) IN
         IF ~loop.ok THEN Panicked
         ELSE [Box |-> b,
               MajorBrand |-> Slice(data, 0, 4),
               MinorVersion |-> Uint32(Slice(data, 4, 8)),
               CompatibleBrands |-> loop.brands]

FtypBox_parse(b, data) ==
    IF Len(data) < 8 THEN Panicked
    ELSE LET loop == ftypBrands(data, 8, <<>>) IN
         IF ~loop.ok THEN Panicked
         ELSE [Box |-> b,
               MajorBrand |-> Slice(data, 0, 4),
               MinorVersion |-> Uint32(Slice(data, 4, 8)),
               CompatibleBrands |-> loop.brands]

\* MovieHeaderBox.parse (main.go: MvhdBox.parse): reads up to data[24:26]
MovieHeaderBox_parse(b, data) ==
    IF Len(data) < 26 THEN Panicked
    ELSE [Box |-> b,
          Version |-> data[1],
          Flags |-> 0,
          CreationTime |-> 0,
          ModificationTime |-> 0,
          Timescale |-> Uint32(Slice(data, 12, 16)),
          Duration |-> Uint32(Slice(data, 16, 20)),
          Rate |-> fixed32(Slice(data, 20, 24)),
          Volume |-> fixed16(Slice(data, 24, 26))]

\* TrackHeaderBox.parse: reads up to data[80:84]; Width and Height go
\* through fixed16, which takes the first two bytes of the four
TrackHeaderBox_parse(b, data) ==
    IF Len(data) < 84 THEN Panicked
    ELSE [Box |-> b,
          Version |-> data[1],
          Flags |-> Slice(data, 1, 4),
          CreationTime |-> Uint32(Slice(data, 4, 8)),
          ModificationTime |-> Uint32(Slice(data, 8, 12)),
          TrackID |-> Uint32(Slice(data, 12, 16)),
          Reserved |-> Uint32(Slice(data, 16, 20)),
          Duration |-> Uint32(Slice(data, 20, 24)),
          Layer |-> Uint16(Slice(data, 32, 34)),
          AlternateGroup |-> Uint16(Slice(data, 34, 36)),
          Volume |-> fixed16(Slice(data, 36, 38)),
          Width |-> fixed16(Slice(data, 76, 80)),
          Height |-> fixed16(Slice(data, 80, 84))]

\* MediaHeaderBox.parse: reads up to data[19:21]; Timescale is read from
\* data[8:12] and Duration from data[12:16], as the code does
MediaHeaderBox_parse(b, data) ==
    IF Len(data) < 21 THEN Panicked
    ELSE [Box |-> b,
          Version |-> data[1],
          Flags |-> Slice(data, 1, 4),
          CreationTime |-> Uint32(Slice(data, 4, 8)),
          ModificationTime |-> Uint32(Slice(data, 8, 12)),
          Timescale |-> Uint32(Slice(data, 8, 12)),
          Duration |-> Uint32(Slice(data, 12, 16)),
          Language |-> <<0, 0, 0>>,
          PreDefined |-> Uint16(Slice(data, 19, 21))]

\* HandlerBox.parse of part_000: reads up to data[8:12].  (main.go's
\* HandlerBox.parse is empty and MediaBox.parse never calls it.)
HandlerBox_parse(b, data) ==
    IF Len(data) < 12 THEN Panicked
    ELSE [Box |-> b,
          Version |-> data[1],
          Flags |-> Slice(data, 1, 4),
          PreDefined |-> Uint32(Slice(data, 4, 8)),
          HandlerType |-> Uint32(Slice(data, 8, 12)),
          TypeName |-> Slice(data, 8, 12)]

\* the entry loops of main.go's stsz/stsc/stco decoders:
\* for i := 1; i <= count; i++ { data[4*(i+k) : 4*(i+k)+4] }; TRUE when
\* every slice is in range.  part_000 has the loop bodies commented out.
RECURSIVE entryLoop(_, _, _, _)
entryLoop(data, i, count, k) ==
    IF i > count THEN TRUE
    ELSE IF 4 * (i + k) + 4 > Len(data) THEN FALSE
    ELSE entryLoop(data, i + 1, count, k)

\* SampleSizeBox.parse: SampleSize and SampleCount; no entry is kept
SampleSizeBox_parse(p, b, data) ==
    IF Len(data) < 12 THEN Panicked
    ELSE LET count == Uint32(Slice(data, 8, 12)) IN
         IF p = "main" /\ ~entryLoop(data, 1, count, 2) THEN Panicked
         ELSE [Box |-> b,
               Version |-> data[1],
               Flags |-> Slice(data, 1, 4),
               SampleSize |-> Uint32(Slice(data, 4, 8)),
               SampleCount |-> count]

\* SampleToChunkBox.parse: EntryCount; no entry is kept
SampleToChunkBox_parse(p, b, data) ==
    IF Len(data) < 8 THEN Panicked
    ELSE LET count == Uint32(Slice(data, 4, 8)) IN
         IF p = "main" /\ ~entryLoop(data, 1, count, 1) THEN Panicked
         ELSE [Box |-> b,
               Version |-> data[1],
               Flags |-> Slice(data, 1, 4),
               EntryCount |-> count]

\* ChunkOffsetBox.parse: EntryCount; no entry is kept
ChunkOffsetBox_parse(p, b, data) ==
    IF Len(data) < 8 THEN Panicked
    ELSE LET count == Uint32(Slice(data, 4, 8)) IN
         IF p = "main" /\ ~entryLoop(data, 1, count, 1) THEN Panicked
         ELSE [Box |-> b,
               Version |-> data[1],
               Flags |-> Slice(data, 1, 4),
               EntryCount |-> count]

\* VideoMediaHeaderBox / SoundMediaHeaderBox / HintMediaHeaderBox .parse:
\* empty bodies, nothing is read
MediaHeaderStub_parse(b) ==
    [Box |-> b, Version |-> 0, Flags |-> <<0, 0, 0>>]

\* MediaDataBox.parse (main.go: MdatContainer.parse)
MediaDataBox_parse(f, b) ==
    [Box |-> b, Data |-> ReadBoxData(f, b)]

\* an extractor that keeps the first 4 bytes of the payload
extractVideoChunks_Whole(mp4) ==
    IF mp4.Mdat = Nil THEN Panicked
    ELSE IF Len(mp4.Mdat.Data) < 4 THEN Panicked
    ELSE [videoStream |-> <<0, 0, 0, 1>> \o mp4.Mdat.Data]

\* extractVideoChunks (main.go: main, the messageReturn buffer): the start
\* code, then Mdat.Data[4:]; a nil Mdat or fewer than 4 bytes panics
extractVideoChunks(mp4) ==
    IF mp4.Mdat = Nil THEN Panicked
    ELSE IF Len(mp4.Mdat.Data) < 4 THEN Panicked
    ELSE [videoStream |-> <<0, 0, 0, 1>> \o Slice(mp4.Mdat.Data, 4, Len(mp4.Mdat.Data))]

\* the sample list extractVideoChunks works from: no table is consulted, the
\* whole mdat payload is taken as one sample whose first 4 bytes are a length
SlicedSamples(mp4) ==
    <<[index |-> 0, offset |-> mp4.Mdat.Box.Start + BoxHeaderSize,
       length |-> Len(mp4.Mdat.Data)]>>

(***************************************************************************)
(* The call stack.  A frame is one activation of Parse or of a container's *)
(* parse: the range it scans (start, n), the state of its readBoxes loop   *)
(* (offset, l), its position in the loop over the boxes (phase, i), the    *)
(* object it fills (obj) and, in main.go's MoovContainer.parse, count.     *)
(***************************************************************************)
Frame(fn, start, n, obj) ==
    [fn |-> fn, start |-> start, n |-> n, offset |-> start, l |-> <<>>,
     phase |-> "scan", i |-> 1, obj |-> obj, count |-> 0]

\* a container's parse: readBoxes(b.Reader, b.Start+BoxHeaderSize, b.Size-BoxHeaderSize)
BoxFrame(fn, b, obj) ==
    Frame(fn, b.Start + BoxHeaderSize, b.Size - BoxHeaderSize, obj)

Top == stack[Len(stack)]
SetTop(f) == [stack EXCEPT ![Len(stack)] = f]
Push(f) == Append(stack, f)
\* the caller's frame after the callee returned, moved on to its next box
PopTo(f) == Append(SubSeq(stack, 1, Len(stack) - 2), [f EXCEPT !.i = @ + 1])
Caller == stack[Len(stack) - 1]
Advance(f) == [f EXCEPT !.i = @ + 1]

\* the box the loop of the running function is at
InLoop(fn) ==
    /\ pc = "parse"
    /\ stack # <<>>
    /\ Top.fn = fn
    /\ Top.phase = "iter"
    /\ Top.i <= Len(Top.l)
AtEnd(fn) ==
    /\ pc = "parse"
    /\ stack # <<>>
    /\ Top.fn = fn
    /\ Top.phase = "iter"
    /\ Top.i > Len(Top.l)
Cur == Top.l[Top.i]

\* the process dies of a run-time panic
Panic(kind, where, b) ==
    /\ pc' = "panic"
    /\ fault' = [kind |-> kind, fn |-> where, box |-> b]
    /\ UNCHANGED <<prog, file, m, stack, err, videoStream, reads, skipped>>

\* the loop moves on with a new top frame
Continue(f) ==
    /\ stack' = SetTop(f)
    /\ UNCHANGED <<prog, file, pc, m, err, videoStream, reads, skipped, fault>>

\* a typed child was decoded by who: r is the decoder's outcome, f the frame
\* holding it
Decoded(who, r, f, b) ==
    IF r = Panicked THEN Panic("index out of range", who, b)
    ELSE Continue(Advance(f))

\* a default case that gives up on a tag it does not know
NoCase_Fatal == Panic("unknown box", Top.fn, Cur)

\* the switch has no case for the box: the loop moves on
NoCase ==
    /\ stack' = SetTop(Advance(Top))
    /\ skipped' = skipped \cup {[fn |-> Top.fn, box |-> Cur]}
    /\ UNCHANGED <<prog, file, pc, m, err, videoStream, reads, fault>>

\* a container child: its parse is called
Call(f) ==
    /\ stack' = Push(f)
    /\ UNCHANGED <<prog, file, pc, m, err, videoStream, reads, skipped, fault>>

\* a container's parse returns to its caller, whose object is now o
Return(o) ==
    /\ stack' = PopTo([Caller EXCEPT !.obj = o])
    /\ UNCHANGED <<prog, file, pc, m, err, videoStream, reads, skipped, fault>>

(***************************************************************************)
(* readBoxes: one iteration of its loop, and its return.                   *)
(***************************************************************************)
\* a scan that takes the size field for the size of the payload
readBoxes_step_PayloadSize ==
    /\ pc = "parse"
    /\ stack # <<>>
    /\ Top.phase = "scan"
    /\ Top.offset < Top.start + Top.n
    /\ Len(Top.l) < MaxBoxes
    /\ reads' = reads \cup {[offset |-> Top.offset, start |-> Top.start, n |-> Top.n]}
    /\ LET h == ReadBoxAt(file, Top.offset) IN
       IF h = Panicked
       THEN /\ pc' = "panic"
            /\ fault' = [kind |-> "slice bounds out of range", fn |-> "ReadBoxAt",
                         box |-> [Name |-> <<>>, Size |-> 0, Start |-> Top.offset]]
            /\ UNCHANGED stack
       ELSE /\ stack' = SetTop([Top EXCEPT
                   !.l = Append(@, [Name |-> h.boxType, Size |-> h.boxSize,
                                    Start |-> Top.offset]),
                   !.offset = @ + BoxHeaderSize + h.boxSize])
            /\ UNCHANGED <<pc, fault>>
    /\ UNCHANGED <<prog, file, m, err, videoStream, skipped>>

readBoxes_step ==
    /\ pc = "parse"
    /\ stack # <<>>
    /\ Top.phase = "scan"
    /\ Top.offset < Top.start + Top.n
    /\ Len(Top.l) < MaxBoxes
    /\ reads' = reads \cup {[offset |-> Top.offset, start |-> Top.start, n |-> Top.n]}
    /\ LET h == ReadBoxAt(file, Top.offset) IN
       IF h = Panicked
       THEN /\ pc' = "panic"
            /\ fault' = [kind |-> "slice bounds out of range", fn |-> "ReadBoxAt",
                         box |-> [Name |-> <<>>, Size |-> 0, Start |-> Top.offset]]
            /\ UNCHANGED stack
       ELSE /\ stack' = SetTop([Top EXCEPT
                   !.l = Append(@, [Name |-> h.boxType, Size |-> h.boxSize,
                                    Start |-> Top.offset]),
                   !.offset = @ + h.boxSize])
            /\ UNCHANGED <<pc, fault>>
    /\ UNCHANGED <<prog, file, m, err, videoStream, skipped>>

readBoxes_return ==
    /\ pc = "parse"
    /\ stack # <<>>
    /\ Top.phase = "scan"
    /\ Top.offset >= Top.start + Top.n
    /\ Continue([Top EXCEPT !.phase = "iter", !.i = 1])

(***************************************************************************)
(* Open / Mp4Reader.Parse.                                                 *)
(***************************************************************************)
\* Open builds the reader and calls Parse, which takes Size from the file
\* and calls readBoxes(m, 0, m.Size)
Parse_enter ==
    /\ pc = "init"
    /\ pc' = "parse"
    /\ m' = [m EXCEPT !.Size = Len(file)]
    /\ stack' = <<Frame("Parse", 0, Len(file), Nil)>>
    /\ UNCHANGED <<prog, file, err, videoStream, reads, skipped, fault>>

\* a loop body that keeps the first mdat box it meets
Parse_loop_FirstMdat ==
    /\ InLoop("Parse")
    /\ CASE Cur.Name = T_ftyp ->
              LET r == FtypBox_parse(Cur, ReadBoxData(file, Cur)) IN
              IF r = Panicked THEN Panic("index out of range", "FtypBox.parse", Cur)
              ELSE /\ m' = [m EXCEPT !.Ftyp = r]
                   /\ stack' = SetTop(Advance(Top))
                   /\ UNCHANGED <<prog, file, pc, err, videoStream, reads, skipped, fault>>
         [] Cur.Name = T_moov ->
              Call(BoxFrame("moov", Cur, [Box |-> Cur, Mvhd |-> Nil, Trak |-> Nil]))
         [] Cur.Name = T_mdat ->
              /\ m' = IF m.Mdat = Nil
                      THEN [m EXCEPT !.Mdat = MediaDataBox_parse(file, Cur)]
                      ELSE m
              /\ stack' = SetTop(Advance(Top))
              /\ UNCHANGED <<prog, file, pc, err, videoStream, reads, skipped, fault>>
         [] OTHER -> NoCase

\* the body of Parse's loop over the top-level boxes
Parse_loop ==
    /\ InLoop("Parse")
    /\ CASE Cur.Name = T_ftyp ->
              LET r == FtypBox_parse(Cur, ReadBoxData(file, Cur)) IN
              IF r = Panicked THEN Panic("index out of range", "FtypBox.parse", Cur)
              ELSE /\ m' = [m EXCEPT !.Ftyp = r]
                   /\ stack' = SetTop(Advance(Top))
                   /\ UNCHANGED <<prog, file, pc, err, videoStream, reads, skipped, fault>>
         [] Cur.Name = T_moov ->
              Call(BoxFrame("moov", Cur, [Box |-> Cur, Mvhd |-> Nil, Trak |-> Nil]))
         [] Cur.Name = T_mdat ->
              /\ m' = [m EXCEPT !.Mdat = MediaDataBox_parse(file, Cur)]
              /\ stack' = SetTop(Advance(Top))
              /\ UNCHANGED <<prog, file, pc, err, videoStream, reads, skipped, fault>>
         [] OTHER -> NoCase

\* Parse returns nil: Open hands the reader and that error to its caller
Parse_return ==
    /\ AtEnd("Parse")
    /\ pc' = "done"
    /\ err' = "nil"
    /\ stack' = <<>>
    /\ UNCHANGED <<prog, file, m, videoStream, reads, skipped, fault>>

(***************************************************************************)
(* MovieBox.parse (main.go: MoovContainer.parse) and parseTrack.           *)
(***************************************************************************)
MovieBox_loop ==
    /\ InLoop("moov")
    /\ CASE Cur.Name = T_mvhd ->
              LET r == MovieHeaderBox_parse(Cur, ReadBoxData(file, Cur)) IN
              Decoded("MovieHeaderBox.parse", r, [Top EXCEPT !.obj.Mvhd = r], Cur)
         [] Cur.Name = T_trak ->
              IF prog = "main" /\ Top.count # 0
              THEN Continue(Advance(Top))
              ELSE Call(BoxFrame("trak", Cur, [Box |-> Cur, Tkhd |-> Nil, Mdia |-> Nil]))
         [] OTHER -> NoCase

MovieBox_return ==
    /\ AtEnd("moov")
    /\ m' = [m EXCEPT !.Moov = Top.obj]
    /\ stack' = PopTo(Caller)
    /\ UNCHANGED <<prog, file, pc, err, videoStream, reads, skipped, fault>>

(***************************************************************************)
(* TrackBox.parse.  On its return part_000's MovieBox.parse keeps the      *)
(* track when trak.Mdia.Hdlr.TypeName is "vide" (a nil Mdia or Hdlr is a   *)
(* nil dereference); main.go's keeps the first trak box and counts it.     *)
(***************************************************************************)
TrackBox_loop ==
    /\ InLoop("trak")
    /\ CASE Cur.Name = T_tkhd ->
              LET r == TrackHeaderBox_parse(Cur, ReadBoxData(file, Cur)) IN
              Decoded("TrackHeaderBox.parse", r, [Top EXCEPT !.obj.Tkhd = r], Cur)
         [] Cur.Name = T_mdia ->
              Call(BoxFrame("mdia", Cur,
                            [Box |-> Cur, Mdhd |-> Nil, Hdlr |-> Nil, Minf |-> Nil]))
         [] OTHER -> NoCase

TrackBox_return ==
    /\ AtEnd("trak")
    /\ LET trak == Top.obj IN
       IF prog = "main"
       THEN /\ stack' = PopTo([Caller EXCEPT !.obj.Trak = trak, !.count = @ + 1])
            /\ UNCHANGED <<prog, file, pc, m, err, videoStream, reads, skipped, fault>>
       ELSE IF trak.Mdia = Nil \/ trak.Mdia.Hdlr = Nil
            THEN Panic("nil pointer dereference", "MovieBox.parse", trak.Box)
            ELSE IF trak.Mdia.Hdlr.TypeName = T_vide
                 THEN Return([Caller.obj EXCEPT !.Trak = trak])
                 ELSE Return(Caller.obj)

(***************************************************************************)
(* MediaBox.parse: main.go's has no case for hdlr.                         *)
(***************************************************************************)
MediaBox_loop ==
    /\ InLoop("mdia")
    /\ CASE Cur.Name = T_mdhd ->
              LET r == MediaHeaderBox_parse(Cur, ReadBoxData(file, Cur)) IN
              Decoded("MediaHeaderBox.parse", r, [Top EXCEPT !.obj.Mdhd = r], Cur)
         [] Cur.Name = T_hdlr /\ prog = "part_000" ->
              LET r == HandlerBox_parse(Cur, ReadBoxData(file, Cur)) IN
              Decoded("HandlerBox.parse", r, [Top EXCEPT !.obj.Hdlr = r], Cur)
         [] Cur.Name = T_minf ->
              Call(BoxFrame("minf", Cur,
                            [Box |-> Cur, Vmhd |-> Nil, Smhd |-> Nil, Hmhd |-> Nil,
                             Stbl |-> Nil]))
         [] OTHER -> NoCase

MediaBox_return ==
    /\ AtEnd("mdia")
    /\ Return([Caller.obj EXCEPT !.Mdia = Top.obj])

(***************************************************************************)
(* MediaInformationBox.parse.                                              *)
(***************************************************************************)
MediaInformationBox_loop ==
    /\ InLoop("minf")
    /\ CASE Cur.Name = T_vmhd ->
              Continue(Advance([Top EXCEPT !.obj.Vmhd = MediaHeaderStub_parse(Cur)]))
         [] Cur.Name = T_smhd ->
              Continue(Advance([Top EXCEPT !.obj.Smhd = MediaHeaderStub_parse(Cur)]))
         [] Cur.Name = T_hmhd ->
              Continue(Advance([Top EXCEPT !.obj.Hmhd = MediaHeaderStub_parse(Cur)]))
         [] Cur.Name = T_stbl ->
              Call(BoxFrame("stbl", Cur,
                            [Box |-> Cur, Stsz |-> Nil, Stsc |-> Nil, Stco |-> Nil]))
         [] OTHER -> NoCase

MediaInformationBox_return ==
    /\ AtEnd("minf")
    /\ Return([Caller.obj EXCEPT !.Minf = Top.obj])

(***************************************************************************)
(* SampleTableBox.parse.                                                   *)
(***************************************************************************)
SampleTableBox_loop ==
    /\ InLoop("stbl")
    /\ CASE Cur.Name = T_stsz ->
              LET r == SampleSizeBox_parse(prog, Cur, ReadBoxData(file, Cur)) IN
              Decoded("SampleSizeBox.parse", r, [Top EXCEPT !.obj.Stsz = r], Cur)
         [] Cur.Name = T_stsc ->
              LET r == SampleToChunkBox_parse(prog, Cur, ReadBoxData(file, Cur)) IN
              Decoded("SampleToChunkBox.parse", r, [Top EXCEPT !.obj.Stsc = r], Cur)
         [] Cur.Name = T_stco ->
              LET r == ChunkOffsetBox_parse(prog, Cur, ReadBoxData(file, Cur)) IN
              Decoded("ChunkOffsetBox.parse", r, [Top EXCEPT !.obj.Stco = r], Cur)
         [] OTHER -> NoCase

SampleTableBox_return ==
    /\ AtEnd("stbl")
    /\ Return([Caller.obj EXCEPT !.Stbl = Top.obj])

(***************************************************************************)
(* extractVideoChunks on the reader Open returned.                         *)
(***************************************************************************)
Extract ==
    /\ pc = "done"
    /\ LET r == extractVideoChunks(m) IN
       IF r = Panicked
       THEN Panic(IF m.Mdat = Nil THEN "nil pointer dereference"
                  ELSE "slice bounds out of range",
                  "extractVideoChunks", Nil)
       ELSE /\ pc' = "extracted"
            /\ videoStream' = r.videoStream
            /\ UNCHANGED <<prog, file, m, stack, err, reads, skipped, fault>>

(***************************************************************************)
(* The input files the model runs on: containers assembled from boxes,     *)
(* well-formed and malformed.                                              *)
(***************************************************************************)
U32(x) == <<x \div 16777216, (x \div 65536) % 256, (x \div 256) % 256, x % 256>>
Zeros(k) == [j \in 1..k |-> 0]

RECURSIVE Flatten(_)
Flatten(ss) == IF ss = <<>> THEN <<>> ELSE Head(ss) \o Flatten(Tail(ss))

\* a box whose size field is its true size, and a bare header declaring any size
Mk(tag, payload) == U32(BoxHeaderSize + Len(payload)) \o tag \o payload
Hdr(size, tag) == U32(size) \o tag

FtypIsom == Mk(T_ftyp, T_isom \o U32(512) \o T_isom \o T_iso2)
\* a file type with no compatible brand
FtypBare == Mk(T_ftyp, T_iso2 \o U32(1))
FtypEmpty == Hdr(8, T_ftyp)
FtypOdd == Mk(T_ftyp, T_isom \o U32(512) \o <<105, 115>>)
Free == Mk(T_free, <<7, 7, 7, 7>>)
\* a sample of two NAL units of 2 and 3 bytes, each after its 4-byte length
Mdat2 == Mk(T_mdat, <<0, 0, 0, 2, 11, 12, 0, 0, 0, 3, 21, 22, 23>>)
Mdat1 == Mk(T_mdat, <<0, 0, 0, 3, 31, 32, 33>>)
MdatTiny == Mk(T_mdat, <<9, 9>>)
\* a payload of exactly the 4 bytes the extractor drops
Mdat4 == Mk(T_mdat, <<0, 0, 0, 0>>)
Size0 == Hdr(0, T_mdat) \o <<0, 0, 0, 1, 41>>
Size4 == Hdr(4, T_free)
\* the 64-bit form: size field 1, then the 8-byte size (16 + 5 payload bytes)
Size1 == Hdr(1, T_mdat) \o Zeros(4) \o U32(21) \o <<0, 0, 0, 1, 51>>
Overrun == Hdr(64, T_free) \o <<7, 7, 7, 7>>
\* a moov declaring size 4: its child range has a negative length
Moov4 == Hdr(4, T_moov) \o Zeros(4)

MvhdBox ==
    Mk(T_mvhd, Zeros(12) \o U32(1000) \o U32(5000) \o <<0, 1, 128, 0>> \o <<1, 0>>
               \o Zeros(74))
MvhdShort == Mk(T_mvhd, Zeros(20))
\* a second movie header, with another timescale
MvhdOther ==
    Mk(T_mvhd, Zeros(12) \o U32(600) \o U32(5000) \o <<0, 1, 0, 0>> \o <<1, 0>>
               \o Zeros(74))
\* width 320.5 and height 240.25 in 16.16
TkhdBox(id) ==
    Mk(T_tkhd, Zeros(12) \o U32(id) \o Zeros(4) \o U32(5000) \o Zeros(8)
               \o <<0, 0, 0, 0, 1, 0, 0, 0>> \o Zeros(36)
               \o <<1, 64, 128, 0>> \o <<0, 240, 64, 0>>)
MdhdBox == Mk(T_mdhd, Zeros(12) \o U32(1000) \o U32(5000) \o <<85, 196, 0, 0>>)
HdlrBox(h) == Mk(T_hdlr, Zeros(8) \o h \o Zeros(13))
VmhdBox == Mk(T_vmhd, <<0, 0, 0, 1>> \o Zeros(8))
SmhdBox == Mk(T_smhd, Zeros(8))
\* sample sizes [10, 20, 30]; stsc [{1,2,1},{2,1,1}]; chunk offsets [1000, 1030]
StszBox == Mk(T_stsz, Zeros(4) \o U32(0) \o U32(3) \o U32(10) \o U32(20) \o U32(30))
StscBox ==
    Mk(T_stsc, Zeros(4) \o U32(2) \o U32(1) \o U32(2) \o U32(1)
               \o U32(2) \o U32(1) \o U32(1))
StcoBox == Mk(T_stco, Zeros(4) \o U32(2) \o U32(1000) \o U32(1030))

\* a trak box from its parts; pad goes before and after the children of
\* every level
StdParts ==
    [tkhd |-> TkhdBox(1), mdhd |-> MdhdBox, hdlr |-> HdlrBox(T_vide),
     mh |-> VmhdBox, stsz |-> StszBox, stsc |-> StscBox, stco |-> StcoBox,
     pad |-> <<>>]
BuildStbl(p) == Mk(T_stbl, p.pad \o p.stsz \o p.stsc \o p.stco \o p.pad)
BuildMinf(p) == Mk(T_minf, p.pad \o p.mh \o BuildStbl(p) \o p.pad)
BuildMdia(p) == Mk(T_mdia, p.pad \o p.mdhd \o p.hdlr \o BuildMinf(p) \o p.pad)
BuildTrak(p) == Mk(T_trak, p.pad \o p.tkhd \o BuildMdia(p) \o p.pad)

TrakVide(id) == BuildTrak([StdParts EXCEPT !.tkhd = TkhdBox(id)])
TrakSoun(id) ==
    BuildTrak([StdParts EXCEPT !.tkhd = TkhdBox(id), !.hdlr = HdlrBox(T_soun),
                               !.mh = SmhdBox])
TrakBare(id) == Mk(T_trak, TkhdBox(id))

TopAtoms ==
    {FtypIsom, FtypBare, FtypEmpty, FtypOdd, Free, Mdat2, Mdat1, MdatTiny, Mdat4, Size0,
     Size4, Size1, Overrun, Hdr(8, T_moov), Moov4}
\* what a generated moov holds before its trak boxes, and the trak boxes
MoovHeads == {<<>>, MvhdBox, MvhdShort, Free \o MvhdBox, MvhdBox \o MvhdOther}
TrakAtoms == {TrakVide(1), TrakVide(2), TrakSoun(3), TrakBare(4)}

\* the sequences of at most k members of S
SeqsUpTo(S, k) == UNION {[1..j -> S] : j \in 0..k}

TopFiles == {Flatten(q) : q \in SeqsUpTo(TopAtoms, MaxTop)}
MoovFiles ==
    {FtypIsom \o Mk(T_moov, h \o Flatten(q)) \o Mdat2 :
        h \in MoovHeads, q \in SeqsUpTo(TrakAtoms, MaxTraks)}

\* one video track with one part replaced
DeepParts ==
    {[StdParts EXCEPT !.pad = Free],
     [StdParts EXCEPT !.tkhd = Mk(T_tkhd, Zeros(80))],
     [StdParts EXCEPT !.mdhd = Mk(T_mdhd, Zeros(20))],
     [StdParts EXCEPT !.hdlr = Mk(T_hdlr, Zeros(8))],
     [StdParts EXCEPT !.hdlr = <<>>],
     [StdParts EXCEPT !.mh = Mk(T_hmhd, Zeros(4))],
     [StdParts EXCEPT !.stsz = Hdr(8, T_stsz)],
     [StdParts EXCEPT !.stsz = Mk(T_stsz, Zeros(4) \o U32(0) \o U32(3))],
     [StdParts EXCEPT !.stsc = Mk(T_stsc, Zeros(4))],
     [StdParts EXCEPT !.stco = Mk(T_stco, Zeros(6))],
     [StdParts EXCEPT !.stco = Hdr(0, T_stco) \o Zeros(8)],
     [StdParts EXCEPT !.stco = Hdr(64, T_stco) \o Zeros(8)],
     [StdParts EXCEPT !.stsz = Hdr(4, T_stsz) \o Zeros(8)]}
DeepFiles ==
    {FtypIsom \o p.pad \o Mk(T_moov, p.pad \o MvhdBox \o BuildTrak(p) \o p.pad)
              \o Mdat2 \o p.pad : p \in DeepParts}

\* one video track whose tables describe the samples of the mdat that
\* follows: all of them in one chunk at the start of the mdat payload
TablesFor(sizes, off) ==
    [StdParts EXCEPT
        !.stsz = Mk(T_stsz, Zeros(4) \o U32(0) \o U32(Len(sizes))
                            \o Flatten([j \in 1..Len(sizes) |-> U32(sizes[j])])),
        !.stsc = Mk(T_stsc, Zeros(4) \o U32(1) \o U32(1) \o U32(Len(sizes)) \o U32(1)),
        !.stco = Mk(T_stco, Zeros(4) \o U32(1) \o U32(off))]
SampleFile(samples) ==
    LET sizes == [j \in 1..Len(samples) |-> Len(samples[j])]
        head(off) == FtypIsom \o Mk(T_moov, MvhdBox \o BuildTrak(TablesFor(sizes, off)))
    IN  head(Len(head(0)) + BoxHeaderSize) \o Mk(T_mdat, Flatten(samples))
SampleFiles ==
    {SampleFile(<<<<0, 0, 0, 3, 31, 32, 33>>>>),
     SampleFile(<<<<0, 0, 0, 2, 11, 12, 0, 0, 0, 3, 21, 22, 23>>>>),
     SampleFile(<<<<0, 0, 0, 2, 11, 12, 0, 0, 0, 3, 21, 22, 23>>,
                  <<0, 0, 0, 3, 31, 32, 33>>>>)}

Files == TopFiles \cup MoovFiles \cup DeepFiles \cup SampleFiles
Progs == {"part_000", "main"}

(***************************************************************************)
(* The specification.                                                      *)
(***************************************************************************)
\* the state after Open built the reader: f = &Mp4Reader{Reader: file}
Init ==
    /\ prog \in Progs
    /\ file \in Files
    /\ pc = "init"
    /\ m = [Ftyp |-> Nil, Moov |-> Nil, Mdat |-> Nil, Size |-> 0]
    /\ stack = <<>>
    /\ err = "pending"
    /\ videoStream = <<>>
    /\ reads = {}
    /\ skipped = {}
    /\ fault = Nil

Next ==
    \/ Parse_enter
    \/ readBoxes_step
    \/ readBoxes_return
    \/ Parse_loop
    \/ Parse_return
    \/ MovieBox_loop
    \/ MovieBox_return
    \/ TrackBox_loop
    \/ TrackBox_return
    \/ MediaBox_loop
    \/ MediaBox_return
    \/ MediaInformationBox_loop
    \/ MediaInformationBox_return
    \/ SampleTableBox_loop
    \/ SampleTableBox_return
    \/ Extract

Spec == Init /\ [][Next]_vars

(***************************************************************************)
(* Helpers of the claims: the box layout the specification prescribes,     *)
(* read from the file's bytes.                                             *)
(***************************************************************************)
FileU32(off) == Uint32(SubSeq(file, off + 1, off + 4))

\* the frames whose readBoxes call has returned its list
Returned(f) == f.phase = "iter"
Frames == {stack[k] : k \in 1..Len(stack)}

\* the size a header at off stands for in a range ending at end: the field,
\* the rest of the range for 0, the 64-bit value after the tag for 1
\* (-1 when that value is cut off or does not fit 32 bits)
ComputedSize(off, end) ==
    LET field == FileU32(off) IN
    IF field = 0 THEN end - off
    ELSE IF field = 1
         THEN IF off + 16 > end \/ off + 16 > Len(file) \/ FileU32(off + 8) # 0 THEN -1
              ELSE FileU32(off + 12)
         ELSE field

\* the range [off, end) is a sequence of boxes, each at least a header long
\* and inside the range, that ends exactly at end
RECURSIVE RangeWellFormed(_, _)
RangeWellFormed(off, end) ==
    IF off = end THEN TRUE
    ELSE IF off + BoxHeaderSize > end \/ off + BoxHeaderSize > Len(file) THEN FALSE
    ELSE LET size == ComputedSize(off, end) IN
         /\ size >= BoxHeaderSize
         /\ off + size <= end
         /\ RangeWellFormed(off + size, end)

(***************************************************************************)
(* C1: scanning a range terminates and every header read it issues lies    *)
(* inside [start, start+length): each 8-byte read starts at or after start *)
(* and ends at or before start+length, and every iteration of the scan     *)
(* moves its offset forward (or ends the process), so the loop cannot run  *)
(* forever, whatever size a header declares.                               *)
(***************************************************************************)
C1_ReadsInRange ==
    \A r \in reads : r.start <= r.offset /\ r.offset + BoxHeaderSize <= r.start + r.n

C1_ScanAdvances ==
    readBoxes_step => (pc' = "panic" \/ stack'[Len(stack)].offset > Top.offset)

C1_ScanTerminatesInRange == [](C1_ReadsInRange) /\ [][C1_ScanAdvances]_vars

(***************************************************************************)
(* C2: readBoxes hands back a header list as a success only for a range    *)
(* that is well formed: every box at least 8 bytes long, none reaching     *)
(* past the end of the range, the sizes summing exactly to its length.     *)
(* For any other range the scan is to fail with MalformedContainer.        *)
(***************************************************************************)
C2_MalformedRangeFails ==
    \A f \in Frames : Returned(f) /\ f.n >= 0 => RangeWellFormed(f.start, f.start + f.n)

(***************************************************************************)
(* C10: a header whose size field is 0 yields a box that extends to the    *)
(* end of the range being scanned, is the last box of the list, and ends   *)
(* the scan.                                                               *)
(***************************************************************************)
C10_SizeZeroRunsToEnd ==
    \A f \in Frames : \A k \in 1..Len(f.l) :
        FileU32(f.l[k].Start) = 0 =>
            /\ f.l[k].Size = f.start + f.n - f.l[k].Start
            /\ k = Len(f.l)
            /\ f.offset = f.start + f.n

(***************************************************************************)
(* Helpers of the claims: the boxes of a well-formed range, and the video  *)
(* track the specification selects.                                        *)
(***************************************************************************)
RECURSIVE BoxesOf(_, _)
BoxesOf(off, end) ==
    IF off >= end THEN <<>>
    ELSE LET size == ComputedSize(off, end) IN
         <<[Name |-> SubSeq(file, off + 5, off + 8), Size |-> size, Start |-> off]>>
             \o BoxesOf(off + size, end)
PayloadWellFormed(b) == RangeWellFormed(b.Start + BoxHeaderSize, b.Start + b.Size)
ChildrenOf(b) == BoxesOf(b.Start + BoxHeaderSize, b.Start + b.Size)
Named(bs, tag) == SelectSeq(bs, LAMBDA b : b.Name = tag)

\* the handler type of a trak box: bytes 8..11 of the payload of the hdlr
\* box of its mdia box; <<>> when there is none
HandlerOf(t) ==
    LET mdias == Named(ChildrenOf(t), T_mdia) IN
    IF mdias = <<>> THEN <<>>
    ELSE LET hdlrs == Named(ChildrenOf(mdias[1]), T_hdlr) IN
         IF hdlrs = <<>> \/ hdlrs[1].Size < BoxHeaderSize + 12 THEN <<>>
         ELSE SubSeq(file, hdlrs[1].Start + BoxHeaderSize + 9,
                     hdlrs[1].Start + BoxHeaderSize + 12)

\* a moov box all of whose trak boxes can be walked down to their handler
MoovWalkable(b) ==
    /\ b.Size >= BoxHeaderSize
    /\ PayloadWellFormed(b)
    /\ \A j \in 1..Len(Named(ChildrenOf(b), T_trak)) :
          LET t == Named(ChildrenOf(b), T_trak)[j] IN
          /\ PayloadWellFormed(t)
          /\ \A k \in 1..Len(Named(ChildrenOf(t), T_mdia)) :
                PayloadWellFormed(Named(ChildrenOf(t), T_mdia)[k])

VideoTraks(b) == SelectSeq(Named(ChildrenOf(b), T_trak), LAMBDA t : HandlerOf(t) = T_vide)

(***************************************************************************)
(* C3: the track the movie retains after parsing is the first trak box, in *)
(* traversal order, whose handler type is "vide"; no earlier track of      *)
(* another handler type and no later track takes its place.                *)
(***************************************************************************)
C3_FirstVideoTrackKept ==
    (pc = "done" /\ m.Moov # Nil /\ MoovWalkable(m.Moov.Box)) =>
        IF VideoTraks(m.Moov.Box) = <<>> THEN m.Moov.Trak = Nil
        ELSE /\ m.Moov.Trak # Nil
             /\ m.Moov.Trak.Box = VideoTraks(m.Moov.Box)[1]

(***************************************************************************)
(* C7: parsing a moov box that has no mvhd child fails with                *)
(* MissingRequiredBox naming moov/mvhd: Parse never returns without error  *)
(* a movie whose header is unset.                                          *)
(***************************************************************************)
C7_MissingMvhdFails ==
    (err = "nil" /\ m.Moov # Nil) => m.Moov.Mvhd # Nil

(***************************************************************************)
(* Helpers of the claims: the sample list the three tables of the retained *)
(* track stand for, and the Annex-B form of a sample.                      *)
(***************************************************************************)
HasTables ==
    /\ m.Moov # Nil
    /\ m.Moov.Trak # Nil
    /\ m.Moov.Trak.Mdia # Nil
    /\ m.Moov.Trak.Mdia.Minf # Nil
    /\ m.Moov.Trak.Mdia.Minf.Stbl # Nil
    /\ m.Moov.Trak.Mdia.Minf.Stbl.Stsz # Nil
    /\ m.Moov.Trak.Mdia.Minf.Stbl.Stsc # Nil
    /\ m.Moov.Trak.Mdia.Minf.Stbl.Stco # Nil
Stsz == m.Moov.Trak.Mdia.Minf.Stbl.Stsz
Stsc == m.Moov.Trak.Mdia.Minf.Stbl.Stsc
Stco == m.Moov.Trak.Mdia.Minf.Stbl.Stco
\* the payload offset of a table box
TableAt(b) == b.Start + BoxHeaderSize

\* the tables hold every entry their counts announce
TablesComplete ==
    /\ Stsz.Box.Size >= BoxHeaderSize + 12
           + (IF Stsz.SampleSize = 0 THEN 4 * Stsz.SampleCount ELSE 0)
    /\ Stsc.Box.Size >= BoxHeaderSize + 8 + 12 * Stsc.EntryCount
    /\ Stco.Box.Size >= BoxHeaderSize + 8 + 4 * Stco.EntryCount

\* sample k (from 0), stsc entry j and chunk c (from 1)
SizeOfSample(k) ==
    IF Stsz.SampleSize # 0 THEN Stsz.SampleSize
    ELSE FileU32(TableAt(Stsz.Box) + 12 + 4 * k)
FirstChunk(j) == FileU32(TableAt(Stsc.Box) + 8 + 12 * (j - 1))
SamplesPerChunk(j) == FileU32(TableAt(Stsc.Box) + 8 + 12 * (j - 1) + 4)
ChunkOffset(c) == FileU32(TableAt(Stco.Box) + 8 + 4 * (c - 1))
\* the samples of chunk c: those of the last entry whose firstChunk is <= c
PerChunk(c) ==
    LET js == {j \in 1..Stsc.EntryCount : FirstChunk(j) <= c} IN
    IF js = {} THEN 0
    ELSE SamplesPerChunk(CHOOSE j \in js : \A i \in js : i <= j)

\* chunks in order, the samples of each in order: offset = the chunk's
\* offset + the sizes of the samples before it in the chunk
RECURSIVE SamplesFrom(_, _, _, _)
SamplesFrom(c, k, idx, run) ==
    IF c > Stco.EntryCount \/ idx >= Stsz.SampleCount THEN <<>>
    ELSE IF k >= PerChunk(c) THEN SamplesFrom(c + 1, 0, idx, 0)
    ELSE <<[index |-> idx, offset |-> ChunkOffset(c) + run,
            length |-> SizeOfSample(idx)]>>
             \o SamplesFrom(c, k + 1, idx + 1, run + SizeOfSample(idx))
TableSamples == SamplesFrom(1, 0, 0, 0)

RECURSIVE SumPerChunk(_)
SumPerChunk(c) == IF c > Stco.EntryCount THEN 0 ELSE PerChunk(c) + SumPerChunk(c + 1)
TablesConsistent == TablesComplete /\ SumPerChunk(1) = Stsz.SampleCount

\* a sample is a run of NAL units, each after a 4-byte big-endian length
RECURSIVE WellFramed(_)
WellFramed(s) ==
    IF s = <<>> THEN TRUE
    ELSE /\ Len(s) >= 4
         /\ 4 + Uint32(s) <= Len(s)
         /\ WellFramed(SubSeq(s, 5 + Uint32(s), Len(s)))
RECURSIVE AnnexB(_)
AnnexB(s) ==
    IF s = <<>> THEN <<>>
    ELSE <<0, 0, 0, 1>> \o SubSeq(s, 5, 4 + Uint32(s))
             \o AnnexB(SubSeq(s, 5 + Uint32(s), Len(s)))
SampleBytes(x) == SubSeq(file, x.offset + 1, x.offset + x.length)
\* the samples lie in the file and are framed
SamplesFramed(xs) ==
    \A j \in 1..Len(xs) :
        /\ xs[j].length > 0
        /\ xs[j].offset + xs[j].length <= Len(file)
        /\ WellFramed(SampleBytes(xs[j]))

(***************************************************************************)
(* C4: the extracted stream is, sample after sample in index order and     *)
(* unit after unit, the start code 00 00 00 01 followed by the unit's      *)
(* bytes, every 4-byte length prefix removed.                              *)
(***************************************************************************)
C4_StreamIsAnnexB ==
    (pc = "extracted" /\ HasTables /\ TablesConsistent /\ SamplesFramed(TableSamples)) =>
        videoStream = Flatten([j \in 1..Len(TableSamples) |->
                                   AnnexB(SampleBytes(TableSamples[j]))])

(***************************************************************************)
(* C5: the sample list the extractor works from is the one the three       *)
(* tables stand for: SampleCount entries, each at its chunk's offset plus  *)
(* the sizes of the samples before it in the chunk, each as long as the    *)
(* sample-size table says.                                                 *)
(***************************************************************************)
C5_SampleListFromTables ==
    (pc = "extracted" /\ HasTables /\ TablesConsistent) =>
        /\ SlicedSamples(m) = TableSamples
        /\ Len(SlicedSamples(m)) = Stsz.SampleCount

(***************************************************************************)
(* C6: when the decoding of a known, mandatory box fails during Parse, the *)
(* parse ends by returning an error, and no reader is handed to the        *)
(* caller.  A decoding fails when a typed decoder runs out of payload or   *)
(* when the scan of a container's children cannot read a header.           *)
(***************************************************************************)
MandatoryTyped == {T_ftyp, T_mvhd, T_hdlr, T_stsz, T_stsc, T_stco}
MandatoryDecodeFailed ==
    /\ fault # Nil
    /\ \/ fault.kind = "index out of range" /\ fault.box.Name \in MandatoryTyped
       \/ fault.fn = "ReadBoxAt" /\ Len(stack) >= 2
C6_FailedDecodeAbortsParse ==
    MandatoryDecodeFailed => (pc = "done" /\ err \notin {"pending", "nil"})

(***************************************************************************)
(* C8: a typed decoder whose payload is shorter than the layout it reads   *)
(* reports TruncatedBox; it does not index past the end of the payload.    *)
(***************************************************************************)
\* the bytes each decoder's fixed layout takes
LayoutOf(tag) ==
    CASE tag = T_ftyp -> 8
      [] tag = T_mvhd -> 26
      [] tag = T_tkhd -> 84
      [] tag = T_mdhd -> 21
      [] tag = T_hdlr -> 12
      [] tag = T_stsz -> 12
      [] tag = T_stsc -> 8
      [] tag = T_stco -> 8
      [] OTHER -> 0
\* the tags each level hands to a typed decoder
TypedIn(fn) ==
    CASE fn = "Parse" -> {T_ftyp}
      [] fn = "moov" -> {T_mvhd}
      [] fn = "trak" -> {T_tkhd}
      [] fn = "mdia" -> IF prog = "part_000" THEN {T_mdhd, T_hdlr} ELSE {T_mdhd}
      [] fn = "stbl" -> {T_stsz, T_stsc, T_stco}
      [] OTHER -> {}
C8_ShortPayloadIsTruncatedBox ==
    \A f \in Frames : \A k \in 1..Len(f.l) :
        (/\ Returned(f)
         /\ k <= f.i
         /\ f.l[k].Name \in TypedIn(f.fn)
         /\ Len(ReadBoxData(file, f.l[k])) < LayoutOf(f.l[k].Name)
         /\ (k < f.i \/ pc = "panic"))
        => err = "TruncatedBox"

(***************************************************************************)
(* C9: at every level of the tree a box whose tag no decoder knows never   *)
(* makes the traversal fail: the step that meets it leaves the reader, the *)
(* object being filled and the list of headers as they are, reads nothing, *)
(* does not recurse, and moves the loop on to the next sibling.            *)
(***************************************************************************)
KnownTags ==
    {T_ftyp, T_moov, T_mvhd, T_trak, T_tkhd, T_mdia, T_mdhd, T_hdlr, T_minf,
     T_vmhd, T_smhd, T_hmhd, T_stbl, T_stsz, T_stsc, T_stco, T_mdat}
AtUnknownBox ==
    /\ pc = "parse"
    /\ stack # <<>>
    /\ Top.phase = "iter"
    /\ Top.i <= Len(Top.l)
    /\ Cur.Name \notin KnownTags
C9_UnknownBoxSkipped ==
    [][AtUnknownBox =>
          /\ pc' = "parse"
          /\ m' = m
          /\ fault' = fault
          /\ reads' = reads
          /\ stack' = SetTop([Top EXCEPT !.i = @ + 1])]_vars

\* an unknown box was passed over at each of the six levels and the parse
\* went on to decode the boxes after it, down to the chunk-offset table
C9_SkippedAtEveryLevel ==
    /\ pc = "done"
    /\ {s.fn : s \in {x \in skipped : x.box.Name = T_free}}
           = {"Parse", "moov", "trak", "mdia", "minf", "stbl"}
    /\ m.Ftyp # Nil
    /\ m.Mdat # Nil
    /\ HasTables
    /\ m.Moov.Mvhd # Nil

(***************************************************************************)
(* C11: a header whose 32-bit size field is 1 takes the box's size from    *)
(* the 8-byte big-endian value after the tag, and the next sibling header  *)
(* is read at the box's offset plus that size.                             *)
(***************************************************************************)
\* the header at off has the 64-bit form, wholly inside the file, with a
\* size whose upper 32 bits are zero
HasLargeSize(off) ==
    /\ FileU32(off) = 1
    /\ off + 2 * BoxHeaderSize <= Len(file)
    /\ FileU32(off + BoxHeaderSize) = 0
LargeSize(off) == FileU32(off + BoxHeaderSize + 4)
C11_LargeSizeHonoured ==
    \A f \in Frames : \A k \in 1..Len(f.l) :
        HasLargeSize(f.l[k].Start) =>
            /\ f.l[k].Size = LargeSize(f.l[k].Start)
            /\ k < Len(f.l) => f.l[k + 1].Start = f.l[k].Start + LargeSize(f.l[k].Start)

(***************************************************************************)
(* C12: every 16.16 fixed-point field of a decoded box (mvhd rate, tkhd    *)
(* width and height) keeps its integer part and its fraction: a payload    *)
(* that differs from the decoded one only in the two fraction bytes of     *)
(* such a field decodes to a different value of that field.                *)
(***************************************************************************)
\* data with the bytes from index at (0-based) on replaced by bs
WithBytes(data, at, bs) ==
    [j \in 1..Len(data) |->
        IF j > at /\ j <= at + Len(bs) THEN bs[j - at] ELSE data[j]]
\* fraction bytes tried against the ones in the file
Fractions == {<<0, 0>>, <<0, 1>>, <<64, 0>>, <<128, 0>>}
\* the payloads that differ from data only in the fraction at index at
FractionVariants(data, at) ==
    {WithBytes(data, at, fr) : fr \in Fractions} \ {data}
C12_FractionKept ==
    /\ (m.Moov # Nil /\ m.Moov.Mvhd # Nil) =>
          LET mvhd == m.Moov.Mvhd
              data == ReadBoxData(file, mvhd.Box)
          IN  /\ mvhd = MovieHeaderBox_parse(mvhd.Box, data)
              /\ \A d \in FractionVariants(data, 22) :
                     MovieHeaderBox_parse(mvhd.Box, d).Rate # mvhd.Rate
    /\ (m.Moov # Nil /\ m.Moov.Trak # Nil /\ m.Moov.Trak.Tkhd # Nil) =>
          LET tkhd == m.Moov.Trak.Tkhd
              data == ReadBoxData(file, tkhd.Box)
          IN  /\ tkhd = TrackHeaderBox_parse(tkhd.Box, data)
              /\ \A d \in FractionVariants(data, 78) :
                     TrackHeaderBox_parse(tkhd.Box, d).Width # tkhd.Width
              /\ \A d \in FractionVariants(data, 82) :
                     TrackHeaderBox_parse(tkhd.Box, d).Height # tkhd.Height

(***************************************************************************)
(* C13: decoding an ftyp payload of 8+4k bytes yields the major brand      *)
(* equal to bytes 0..3, the minor version equal to the big-endian 32-bit   *)
(* value of bytes 4..7, and exactly k compatible brands, the successive    *)
(* 4-byte groups of the payload in order.                                  *)
(***************************************************************************)
\* the big-endian value of the 4 bytes of data from index at (0-based)
BigEndian32(data, at) ==
    ((data[at + 1] * 256 + data[at + 2]) * 256 + data[at + 3]) * 256 + data[at + 4]
\* the payload of the decoded FileTypeBox, as the file holds it
FtypPayload ==
    SubSeq(file, m.Ftyp.Box.Start + BoxHeaderSize + 1, m.Ftyp.Box.Start + m.Ftyp.Box.Size)
C13_FtypFieldsRecovered ==
    m.Ftyp # Nil =>
        LET data == FtypPayload
            k == (Len(data) - 8) \div 4
        IN  /\ Len(data) = 8 + 4 * k
            /\ m.Ftyp.MajorBrand = <<data[1], data[2], data[3], data[4]>>
            /\ m.Ftyp.MinorVersion = BigEndian32(data, 4)
            /\ Len(m.Ftyp.CompatibleBrands) = k
            /\ \A j \in 1..k :
                   m.Ftyp.CompatibleBrands[j] =
                       <<data[4 * j + 5], data[4 * j + 6], data[4 * j + 7], data[4 * j + 8]>>

\* the example: major "isom", minor 512, brands ["isom", "iso2"]
C13_IsomDecoded ==
    /\ m.Ftyp # Nil
    /\ FtypPayload = T_isom \o <<0, 0, 2, 0>> \o T_isom \o T_iso2
    /\ m.Ftyp.MajorBrand = T_isom
    /\ m.Ftyp.MinorVersion = 512
    /\ m.Ftyp.CompatibleBrands = <<T_isom, T_iso2>>

(***************************************************************************)
(* C14: extractVideoChunks never consults the sample tables.  For every    *)
(* parsed reader whose retained mdat payload has at least 4 bytes its      *)
(* output is 00 00 00 01 followed by the payload from byte index 4 to the  *)
(* end: as long as the payload, a function of the mdat box's bytes alone   *)
(* whatever stsz/stsc/stco hold, and the reader (the payload included) is  *)
(* left as it was.  It fails only without an mdat or on a payload of fewer *)
(* than 4 bytes.                                                           *)
(***************************************************************************)
\* the payload of the retained mdat box, as the file holds it
MdatPayload ==
    SubSeq(file, m.Mdat.Box.Start + BoxHeaderSize + 1, m.Mdat.Box.Start + m.Mdat.Box.Size)
C14_OutputIsPayloadTail ==
    /\ pc = "extracted" =>
          /\ Len(MdatPayload) >= 4
          /\ m.Mdat.Data = MdatPayload
          /\ videoStream = <<0, 0, 0, 1>> \o SubSeq(MdatPayload, 5, Len(MdatPayload))
          /\ Len(videoStream) = Len(m.Mdat.Data)
    /\ (fault # Nil /\ fault.fn = "extractVideoChunks") =>
          (m.Mdat = Nil \/ Len(m.Mdat.Data) < 4)
C14_ReaderUntouched == Extract => m' = m
C14_ExtractIgnoresTables == [](C14_OutputIsPayloadTail) /\ [][C14_ReaderUntouched]_vars

\* a stream was extracted from a reader whose tables describe three samples
\* of 60 bytes in two chunks at offsets 1000 and 1030, none of which the
\* 13-byte mdat payload holds
C14_ExtractedDespiteTables ==
    /\ pc = "extracted"
    /\ HasTables
    /\ m.Moov.Trak.Mdia.Minf.Stbl.Stsz.SampleCount = 3
    /\ Len(m.Mdat.Data) = 13
    /\ videoStream = <<0, 0, 0, 1, 11, 12, 0, 0, 0, 3, 21, 22, 23>>

(***************************************************************************)
(* C15: whenever readBoxes(m, start, n) returns, the headers it returns    *)
(* are contiguous and ordered: the first has Start = start, each later one *)
(* has Start equal to the previous header's Start plus its Size, every     *)
(* Start is below start+n, and the list is empty exactly when n <= 0.      *)
(***************************************************************************)
C15_HeadersContiguous ==
    \A f \in Frames :
        Returned(f) =>
            /\ (f.l = <<>>) <=> (f.n <= 0)
            /\ f.l # <<>> => f.l[1].Start = f.start
            /\ \A k \in 2..Len(f.l) : f.l[k].Start = f.l[k - 1].Start + f.l[k - 1].Size
            /\ \A k \in 1..Len(f.l) : f.l[k].Start < f.start + f.n

\* a scan that returned three or more headers, with a nested scan of an
\* empty range that returned none
C15_ListsReturned ==
    \E f, g \in Frames :
        /\ Returned(f)
        /\ Len(f.l) >= 3
        /\ Returned(g)
        /\ g.n <= 0
        /\ g.l = <<>>

(***************************************************************************)
(* C16: when the top-level range holds several mdat boxes, the reader      *)
(* retains after Parse only the last one in scan order, so the extracted   *)
(* stream is derived from the last mdat's payload alone; the same          *)
(* last-one-wins rule holds for repeated ftyp and moov boxes and, inside a *)
(* moov box, for repeated mvhd boxes.                                      *)
(***************************************************************************)
\* the last box of bs with the tag, Nil when there is none
LastOf(bs, tag) ==
    LET s == Named(bs, tag) IN IF s = <<>> THEN Nil ELSE s[Len(s)]
\* the header a decoded object was built from
BoxOf(o) == IF o = Nil THEN Nil ELSE o.Box
\* the top-level range is well formed and no header of it has the size
\* field 0 or 1: the scan's list is the list of the file's top-level boxes
TopLevelPlain ==
    /\ RangeWellFormed(0, Len(file))
    /\ \A k \in 1..Len(BoxesOf(0, Len(file))) :
           FileU32(BoxesOf(0, Len(file))[k].Start) >= BoxHeaderSize
C16_LastOneWins ==
    /\ (stack # <<>> /\ AtEnd("Parse")) =>
          /\ BoxOf(m.Ftyp) = LastOf(Top.l, T_ftyp)
          /\ BoxOf(m.Moov) = LastOf(Top.l, T_moov)
          /\ BoxOf(m.Mdat) = LastOf(Top.l, T_mdat)
          /\ m.Mdat # Nil => m.Mdat.Data = ReadBoxData(file, LastOf(Top.l, T_mdat))
    /\ (stack # <<>> /\ AtEnd("moov")) =>
          BoxOf(Top.obj.Mvhd) = LastOf(Top.l, T_mvhd)
    /\ (pc \in {"done", "extracted"} /\ TopLevelPlain) =>
          /\ BoxOf(m.Ftyp) = LastOf(BoxesOf(0, Len(file)), T_ftyp)
          /\ BoxOf(m.Moov) = LastOf(BoxesOf(0, Len(file)), T_moov)
          /\ BoxOf(m.Mdat) = LastOf(BoxesOf(0, Len(file)), T_mdat)
    /\ (pc = "extracted" /\ TopLevelPlain) =>
          LET last == LastOf(BoxesOf(0, Len(file)), T_mdat) IN
          videoStream = <<0, 0, 0, 1>>
                            \o SubSeq(file, last.Start + BoxHeaderSize + 5,
                                      last.Start + last.Size)

\* a stream was extracted from a file with two mdat boxes of different
\* payloads, and the reader holds the second
C16_SecondMdatKept ==
    /\ pc = "extracted"
    /\ TopLevelPlain
    /\ LET mdats == Named(BoxesOf(0, Len(file)), T_mdat) IN
       /\ Len(mdats) = 2
       /\ mdats[1].Size # mdats[2].Size
       /\ m.Mdat.Box = mdats[2]
       /\ Len(videoStream) = mdats[2].Size - BoxHeaderSize

====
